---- MODULE Spec2Model ----
(***************************************************************************)
(* A model of cnp-align: the segment table of one sample, its gap          *)
(* autoresolution (utils.autoresolve), the construction of Arms and        *)
(* Profiles from a segment table (format.py), the BLOSUM-like substitution *)
(* matrix (blosum.py), the Alignment object with align and plot            *)
(* (align.py, plot.py), the summary of a batch (utils.py) and the batch    *)
(* run of the command line (cnp-align.py).                                 *)
(*                                                                         *)
(* Column names with a dot are written with an underscore: loc.start is    *)
(* loc_start, loc.end is loc_end, num.mark is num_mark, seg.mean is       *)
(* seg_mean.                                                               *)
(***************************************************************************)
EXTENDS Integers, Sequences, FiniteSets, TLC

VARIABLES
    bin_size,     \* args.bin_size: the size of one bin
    df,           \* the segment table of one sample, a sequence of rows
    before,       \* the table handed to the last autoresolve call
    nruns,        \* number of autoresolve calls that returned
    ar_status,    \* outcome of the last autoresolve call
    profile,      \* Profile.arms built from df; <<>> while no Profile is built
    n_samples,    \* blosum: the number of samples (columns) of the population
    pattern_dict, \* blosum: position -> sample -> state, after dropna()
    bl_matrix,    \* blosum: the nested dict returned; <<>> while none is
    bl_status,    \* blosum: outcome of the call
    profile1,     \* Alignment.profile1: the arms [chrom, seq] of get_dict()
    profile2,     \* Alignment.profile2
    alignment,    \* Alignment.alignment: the per-arm results; <<>> is None
    al_status,    \* outcome of the last align call: "ok" or the exception
    al_returned,  \* what the last align call returned; <<>> when it raised
    al_done,      \* arms the last align call aligned before it ended
    al_args,      \* the arguments of an align call whose result is examined
    al_drawn,     \* the figures plot has drawn
    al_succeeded, \* history: an align call on this object has returned
    pl_status,    \* outcome of the last plot call: "ok" or the exception
    sm_results,   \* summary: the alignment results of the pairs, in order
    sm_null,      \* summary: null_scores is not None
    sm_exp_id,    \* summary: exp_id
    sm_dfs,       \* summary: dfs, the dataframes of the pairs formatted so far
    sm_summary,   \* summary: the rows returned by summarize_results
    sm_status,    \* summary: outcome, "ok" or the exception
    mn_data,      \* main: the segment tables of the samples, in order of ID
    mn_args,      \* main: args (autoresolve, null_scores, exp_id)
    mn_pc,        \* main: "loop", "done" or "aborted"
    mn_status,    \* main: the exception that ended the run
    mn_attempted, \* main: the pairs whose processing began
    mn_observed,  \* main: observed, the pairs processed to the end
    mn_files,     \* main: the files written
    cg_table,     \* CGHcall: the rows (bins) of the input table, one sample
    cg_call,      \* CGHcall: the conversion called, with its autoresolve flag
    cg_collapsed, \* CGHcall: the segments of the run-length collapse
    cg_segments,  \* CGHcall: the table the conversion returned; <<>> if none
    cg_status     \* CGHcall: outcome of the conversion: "ok" or the exception

segvars == <<bin_size, df, before, nruns, ar_status, profile>>
blvars == <<n_samples, pattern_dict, bl_matrix, bl_status>>
alvars == <<profile1, profile2, alignment, al_status, al_returned, al_done,
           al_args, al_drawn, al_succeeded, pl_status>>

smvars == <<sm_results, sm_null, sm_exp_id, sm_dfs, sm_summary, sm_status>>
mnvars == <<mn_data, mn_args, mn_pc, mn_status, mn_attempted, mn_observed,
           mn_files>>

cgvars == <<cg_table, cg_call, cg_collapsed, cg_segments, cg_status>>

vars == <<segvars, blvars, alvars, smvars, mnvars, cgvars>>

None == "None"

(***************************************************************************)
(* Bounds of the model.                                                    *)
(***************************************************************************)
MaxRows == 2      \* rows in the segment table of the sample
MaxGap == 6       \* largest loc.start - previous loc.end of a loaded row
MaxLen == 1       \* largest loc.end - loc.start of a loaded row
MaxRuns == 2      \* autoresolve calls in a row
MaxSamples == 2   \* blosum: samples of the population
MaxPositions == 2 \* blosum: bin positions shared by the population
MaxSeqLen == 1    \* align: bins of an arm of a profile
MaxOneArmLen == 3 \* align: bins of the arm of a one-arm profile
MaxPairs == 2     \* summary: sample pairs of a batch
MaxBatch == 3     \* main: samples of the input file

\* The bin sizes of the model.  Division by 1 and by 2 is exact in floating
\* point, so the arithmetic below is the arithmetic of the code.
BinSizes == {1, 2}
States == {"N", "G"}

\* get_chrom_order(): the canonical arms, in order.  The model keeps the
\* arms of the first chromosome; chrXp stands for an arm outside the order.
get_chrom_order == <<"chr01p", "chr01q">>
OtherChroms == {"chrXp"}
AllChroms == {get_chrom_order[k] : k \in 1..Len(get_chrom_order)} \cup OtherChroms

(***************************************************************************)
(* Helpers on sequences.                                                   *)
(***************************************************************************)
RECURSIVE Concat(_)
Concat(ss) == IF ss = <<>> THEN <<>> ELSE Head(ss) \o Concat(Tail(ss))

SeqRange(s) == {s[k] : k \in 1..Len(s)}

SetMin(S) == CHOOSE x \in S : \A y \in S : x <= y
SetMax(S) == CHOOSE x \in S : \A y \in S : x >= y

\* df[df['chrom'] == chrom].to_dict('records')
Subset(d, chrom) == SelectSeq(d, LAMBDA r : r.chrom = chrom)

\* astype(int) of a float given as twice its value: truncation toward zero.
AsIntHalf(x2) == IF x2 >= 0 THEN x2 \div 2 ELSE -((-x2) \div 2)

(***************************************************************************)
(* utils.autoresolve                                                       *)
(***************************************************************************)
\* The ID of the rows of the sample whose table is followed.
SampleId == "S1"

\* A new entry: ID and chrom of the next row, num.mark and seg.mean None.
Entry(id, chrom, s, e, state, fill) ==
    [ID |-> id, chrom |-> chrom, loc_start |-> s, loc_end |-> e,
     num_mark |-> None, seg_mean |-> None, state |-> state, fill |-> fill]

\* size = next.loc.start - previous.loc.end
GapSize(prev, next) == next.loc_start - prev.loc_end

\* n_bins = (size - 2 * bin_size) / bin_size is a float; NBinsTimesB is
\* n_bins * bin_size, which is an integer.
NBinsTimesB(prev, next, B) == GapSize(prev, next) - 2 * B

\* 2 * first * bin_size, where first = (n_bins + 1) / 2 when n_bins % 2 != 0
\* and n_bins / 2 otherwise.  n_bins % 2 == 0 exactly when n_bins is an even
\* integer, that is when n_bins * bin_size is a multiple of 2 * bin_size.
FirstTimes2B(prev, next, B) ==
    LET nb == NBinsTimesB(prev, next, B)
    IN  IF nb % (2 * B) # 0 THEN nb + B ELSE nb

\* FillEntries with a 'previous' entry of one bin position only.
FillEntriesOneBin(prev, next, B) ==
    LET nb == NBinsTimesB(prev, next, B)
        f2 == FirstTimes2B(prev, next, B)
    IN  IF nb = B
        THEN << Entry(next.ID, next.chrom, prev.loc_end + B, prev.loc_end + B,
                      prev.state, "previous") >>
        ELSE << Entry(next.ID, next.chrom, prev.loc_end + B,
                      AsIntHalf(2 * prev.loc_end + f2),
                      prev.state, "first_half"),
                Entry(next.ID, next.chrom,
                      AsIntHalf(2 * prev.loc_end + f2 + 2 * B),
                      next.loc_start - B,
                      next.state, "second_half") >>

\* The rows appended for the pair (previous, next) when n_bins is not 0.
FillEntries(prev, next, B) ==
    LET nb == NBinsTimesB(prev, next, B)
        f2 == FirstTimes2B(prev, next, B)
    IN  IF nb = B
        THEN << Entry(next.ID, next.chrom, prev.loc_end + B, next.loc_start - B,
                      prev.state, "previous") >>
        ELSE << Entry(next.ID, next.chrom, prev.loc_end + B,
                      AsIntHalf(2 * prev.loc_end + f2),
                      prev.state, "first_half"),
                Entry(next.ID, next.chrom,
                      AsIntHalf(2 * prev.loc_end + f2 + 2 * B),
                      next.loc_start - B,
                      next.state, "second_half") >>

\* ExtendPrevious without the marker.
ExtendPreviousUnmarked(row, B) == [row EXCEPT !.loc_end = @ + B]

\* ExtendPrevious by two bins.
ExtendPreviousTwice(row, B) == [row EXCEPT !.loc_end = @ + 2 * B, !.fill = "modified"]

\* n_bins == 0: the previous segment is extended by one bin and marked.
ExtendPrevious(row, B) == [row EXCEPT !.loc_end = @ + B, !.fill = "modified"]

\* The loop over the segments of one chromosome, from index i on.
RECURSIVE SegmentLoop(_, _, _, _)
SegmentLoop(cnvs, new_entries, i, B) ==
    IF i > Len(cnvs) THEN <<cnvs, new_entries>>
    ELSE IF i = 1 THEN SegmentLoop(cnvs, new_entries, i + 1, B)
    ELSE IF cnvs[i].loc_start # cnvs[i-1].loc_end + B
         THEN IF NBinsTimesB(cnvs[i-1], cnvs[i], B) = 0
              THEN SegmentLoop(
                     [cnvs EXCEPT ![i-1] = ExtendPrevious(cnvs[i-1], B)],
                     new_entries, i + 1, B)
              ELSE SegmentLoop(cnvs,
                     new_entries \o FillEntries(cnvs[i-1], cnvs[i], B),
                     i + 1, B)
         ELSE SegmentLoop(cnvs, new_entries, i + 1, B)

\* One chromosome of autoresolve: its rows, then the new entries.
ResolveChrom(d, chrom, B) ==
    LET r == SegmentLoop(Subset(d, chrom), <<>>, 1, B)
    IN  r[1] \o r[2]

\* The table autoresolve returns: the chromosomes of get_chrom_order, in order.
autoresolve(d, B) ==
    Concat([k \in 1..Len(get_chrom_order) |->
              ResolveChrom(d, get_chrom_order[k], B)])

(***************************************************************************)
(* format.py: Bin, Arm, Profile                                            *)
(***************************************************************************)
\* range(start, end, step), step > 0, as a sequence
Range(start, end, step) ==
    IF end <= start THEN <<>>
    ELSE [k \in 1..(((end - start - 1) \div step) + 1) |-> start + (k - 1) * step]

\* state[0]: the states of the model are single characters
FirstChar(s) == s

Bin(chrom, start, end, state) ==
    [chrom |-> chrom, start |-> start, end |-> end, state |-> state]

\* get_chrom_sizes(df)[chrom]
get_chrom_sizes(d, chrom) ==
    LET rows == Subset(d, chrom)
    IN  [start |-> SetMin({rows[k].loc_start : k \in 1..Len(rows)}),
         end   |-> SetMax({rows[k].loc_end : k \in 1..Len(rows)})]

\* BinsAt with an interval test that excludes loc.end.
BinsAtExclusive(chrom, i, cnvs, B) ==
    LET hit == SelectSeq(cnvs, LAMBDA j : i >= j.loc_start /\ i < j.loc_end)
    IN  [k \in 1..Len(hit) |-> Bin(chrom, i, i + B, FirstChar(hit[k].state))]

\* The Bins Arm.__init__ appends for bin position i: one per interval of the
\* table, in table order, with loc.start <= i <= loc.end.
BinsAt(chrom, i, cnvs, B) ==
    LET hit == SelectSeq(cnvs, LAMBDA j : i >= j.loc_start /\ i <= j.loc_end)
    IN  [k \in 1..Len(hit) |-> Bin(chrom, i, i + B, FirstChar(hit[k].state))]

\* Arm.__init__ for format 'clonality'
Arm(chrom, B, d) ==
    LET sizes == get_chrom_sizes(d, chrom)
        rng   == Range(sizes.start, sizes.end, B)
        cnvs  == Subset(d, chrom)
        per   == [k \in 1..Len(rng) |-> BinsAt(chrom, rng[k], cnvs, B)]
    IN  [chrom |-> chrom,
         rng |-> rng,
         bins |-> Concat(per),
         unassigned |-> Cardinality({k \in 1..Len(rng) : per[k] = <<>>})]

\* Arm.get_sequence for format 'clonality'
get_sequence(arm) == [k \in 1..Len(arm.bins) |-> arm.bins[k].state]

\* df['chrom'].unique(): the chromosomes of the table in order of appearance
RECURSIVE Unique(_)
Unique(s) ==
    IF s = <<>> THEN <<>>
    ELSE LET u == Unique(SubSeq(s, 1, Len(s) - 1))
         IN  IF s[Len(s)] \in SeqRange(u) THEN u ELSE Append(u, s[Len(s)])

\* Profile.__init__: one Arm per chromosome of the table
Profile(d, B) ==
    LET chroms == Unique([k \in 1..Len(d) |-> d[k].chrom])
    IN  [k \in 1..Len(chroms) |-> Arm(chroms[k], B, d)]

(***************************************************************************)
(* The segment table of one sample: loading, autoresolution, Profile.      *)
(***************************************************************************)
SegInit ==
    /\ bin_size \in BinSizes
    /\ df = <<>>
    /\ before = <<>>
    /\ nruns = 0
    /\ ar_status = None
    /\ profile = <<>>

SegIdle ==
    /\ bin_size = 1
    /\ df = <<>>
    /\ before = <<>>
    /\ nruns = 0
    /\ ar_status = None
    /\ profile = <<>>

\* Index of a chromosome in the order the rows of a table are grouped by.
ChromRank(c) == CASE c = "chr01p" -> 1 [] c = "chr01q" -> 2 [] OTHER -> 3

\* A row of the input file is read: the first row of its chromosome starts
\* at 0, a later one starts gap after the end of the previous row.
LoadRow(chrom, gap, len, state) ==
    /\ nruns = 0
    /\ profile = <<>>
    /\ Len(df) < MaxRows
    /\ \/ df = <<>>
       \/ /\ df # <<>>
          /\ ChromRank(df[Len(df)].chrom) <= ChromRank(chrom)
    /\ LET rows  == Subset(df, chrom)
           start == IF rows = <<>> THEN 0 ELSE rows[Len(rows)].loc_end + gap
       IN  /\ (rows = <<>>) => (gap = 0)
           /\ df' = Append(df, [ID |-> SampleId, chrom |-> chrom,
                                loc_start |-> start, loc_end |-> start + len,
                                num_mark |-> "observed", seg_mean |-> "observed",
                                state |-> state, fill |-> None])
    /\ UNCHANGED <<bin_size, before, nruns, ar_status, profile, blvars, alvars, smvars, mnvars, cgvars>>

\* sample = autoresolve(sample, bin_size).  A table without a row of a
\* canonical arm has no loc.start column after the concatenation, and
\* astype raises.
Autoresolve ==
    /\ df # <<>>
    /\ nruns < MaxRuns
    /\ profile = <<>>
    /\ IF autoresolve(df, bin_size) = <<>>
       THEN /\ ar_status' = "KeyError"
            /\ UNCHANGED <<df, before, nruns>>
       ELSE /\ ar_status' = "ok"
            /\ before' = df
            /\ df' = autoresolve(df, bin_size)
            /\ nruns' = nruns + 1
    /\ UNCHANGED <<bin_size, profile, blvars, alvars, smvars, mnvars, cgvars>>

\* profile = Profile(id, bin_size, sample, format='clonality')
BuildProfile ==
    /\ df # <<>>
    /\ profile = <<>>
    /\ nruns <= 1
    /\ ar_status # "KeyError"
    /\ profile' = Profile(df, bin_size)
    /\ UNCHANGED <<bin_size, df, before, nruns, ar_status, blvars, alvars, smvars, mnvars, cgvars>>

SegNext ==
    \/ \E chrom \in AllChroms, gap \in 0..MaxGap, len \in 0..MaxLen,
          state \in States : LoadRow(chrom, gap, len, state)
    \/ Autoresolve
    \/ BuildProfile

(***************************************************************************)
(* blosum.py: blosum(), from pattern_dict on.  Probabilities are kept as   *)
(* fractions [num, den] in lowest terms, so that equal fractions are equal *)
(* records; the matrix entry 2 * log2(q) is kept as the fraction q.        *)
(* pattern_dict is an input here: get_sequence_dataframe (lines 8-43),     *)
(* which builds it, calls Profile without its format argument.             *)
(***************************************************************************)
\* states: the argument of blosum
states == <<"G", "N", "L">>
StateSet == SeqRange(states)

RECURSIVE GCD(_, _)
GCD(a, b) == IF b = 0 THEN a ELSE GCD(b, a % b)

Frac(num, den) == LET g == GCD(num, den) IN [num |-> num \div g, den |-> den \div g]
FracMul(x, y) == Frac(x.num * y.num, x.den * y.den)
FracDiv(x, y) == Frac(x.num * y.den, x.den * y.num)

\* The pairs (sample1, sample2) counted at every position, taken once each.
SamplePairsOnce(d) == {pr \in (1..d) \X (1..d) : pr[1] < pr[2]}

\* The pairs (sample1, sample2) counted at every position: sample1 != sample2.
SamplePairs(d) == {pr \in (1..d) \X (1..d) : pr[1] # pr[2]}

\* pair_counts[i+j]: 1, plus one for every position and pair of samples with
\* the states i and j.
pair_counts(pd, d, i, j) ==
    1 + Cardinality({x \in (1..Len(pd)) \X SamplePairs(d) :
                        /\ pd[x[1]][x[2][1]] = i
                        /\ pd[x[1]][x[2][2]] = j})

\* 2 * n, where n = ((w * d) * (d - 1)) / 2
TwiceN(pd, d) == (Len(pd) * d) * (d - 1)

\* pair_probabilities[i+j] = pair_counts[i+j] / n
pair_probabilities(pd, d, i, j) == Frac(2 * pair_counts(pd, d, i, j), TwiceN(pd, d))

RECURSIVE SumOver(_, _, _)
SumOver(pd, d, keys) ==
    IF keys = {} THEN 0
    ELSE LET k == CHOOSE k \in keys : TRUE
         IN  pair_counts(pd, d, k[1], k[2]) + SumOver(pd, d, keys \ {k})

\* 2 * numer for state i: the keys that hold i twice count fully, those that
\* hold it once count half.
TwiceNumer(pd, d, i) ==
    2 * SumOver(pd, d, {<<i, i>>})
    + SumOver(pd, d, {k \in StateSet \X StateSet :
                        (k[1] = i) # (k[2] = i)})

\* cnv_probabilities[i] = (numer / n) / 2
cnv_probabilities(pd, d, i) == Frac(TwiceNumer(pd, d, i), 2 * TwiceN(pd, d))

\* exp_pair_probabilities[cnv1+cnv2]
exp_pair_probabilities(pd, d, cnv1, cnv2) ==
    LET p == FracMul(cnv_probabilities(pd, d, cnv1), cnv_probabilities(pd, d, cnv2))
    IN  IF cnv1 = cnv2 THEN p ELSE Frac(2 * p.num, p.den)

\* blosum_matrix[i+j] = 2 * log2(pair_probabilities / exp_pair_probabilities):
\* the quotient under the logarithm
blosum_matrix(pd, d, i, j) ==
    FracDiv(pair_probabilities(pd, d, i, j), exp_pair_probabilities(pd, d, i, j))

\* nested_dict
nested_dict(pd, d) ==
    [i \in StateSet |-> [j \in StateSet |-> blosum_matrix(pd, d, i, j)]]

BlIdle ==
    /\ n_samples = 0
    /\ pattern_dict = <<>>
    /\ bl_matrix = <<>>
    /\ bl_status = None

SmIdle ==
    /\ sm_results = <<>>
    /\ sm_null = FALSE
    /\ sm_exp_id = None
    /\ sm_dfs = <<>>
    /\ sm_summary = <<>>
    /\ sm_status = None

MnIdle ==
    /\ mn_data = <<>>
    /\ mn_args = [given |-> FALSE]
    /\ mn_pc = None
    /\ mn_status = None
    /\ mn_attempted = <<>>
    /\ mn_observed = <<>>
    /\ mn_files = {}

\* no summary is computed and no batch is run
CgIdle ==
    /\ cg_table = <<>>
    /\ cg_call = [given |-> FALSE]
    /\ cg_collapsed = <<>>
    /\ cg_segments = <<>>
    /\ cg_status = None

OthersIdle == SmIdle /\ MnIdle /\ CgIdle

BlInit ==
    /\ n_samples \in 1..MaxSamples
    /\ pattern_dict = <<>>
    /\ bl_matrix = <<>>
    /\ bl_status = None

\* A bin position at which every sample has a state: a row of pattern_dict.
AddPosition(row) ==
    /\ bl_status = None
    /\ Len(pattern_dict) < MaxPositions
    /\ pattern_dict' = Append(pattern_dict, row)
    /\ UNCHANGED <<n_samples, bl_matrix, bl_status, segvars, alvars, smvars, mnvars, cgvars>>

\* blosum(dictionary, bin_size, states).  Without a position, pos is unbound
\* at d = len(pattern_dict[pos]); with one sample n is 0 and v/n raises.
Blosum ==
    /\ bl_status = None
    /\ IF pattern_dict = <<>>
       THEN bl_status' = "UnboundLocalError" /\ UNCHANGED bl_matrix
       ELSE IF TwiceN(pattern_dict, n_samples) = 0
       THEN bl_status' = "ZeroDivisionError" /\ UNCHANGED bl_matrix
       ELSE /\ bl_status' = "ok"
            /\ bl_matrix' = nested_dict(pattern_dict, n_samples)
    /\ UNCHANGED <<n_samples, pattern_dict, segvars, alvars, smvars, mnvars, cgvars>>

BlNext ==
    \/ \E row \in [1..n_samples -> StateSet] : AddPosition(row)
    \/ Blosum

(***************************************************************************)
(* align.py: Alignment.  pairwise2.align.globalds is Biopython's global    *)
(* alignment with a match dictionary and affine gap penalties: it returns  *)
(* the alignments of maximal score, and align takes the first of them,     *)
(* which the model leaves open among the optimal ones.                     *)
(***************************************************************************)
Symbols == {"G", "N"}
Gap == "-"

\* The sequences of at most n symbols.
RECURSIVE SeqsUpTo(_)
SeqsUpTo(n) ==
    IF n = 0 THEN {<<>>}
    ELSE LET shorter == SeqsUpTo(n - 1)
         IN  shorter \cup {Append(q, x) : q \in shorter, x \in Symbols}

\* Profile.get_dict() of the profiles an Alignment is made of: one or two
\* arms, each with the sequence of its bins.
ArmLists == {<<"chr01p">>, <<"chr01q">>, <<"chr01p", "chr01q">>}
Profiles ==
    UNION {{[k \in 1..Len(arms) |-> [chrom |-> arms[k], seq |-> q[k]]] :
                q \in [1..Len(arms) -> SeqsUpTo(MaxSeqLen)]} : arms \in ArmLists}

\* Profiles of the one arm chr01p, with longer sequences.
OneArmProfiles ==
    {<<[chrom |-> "chr01p", seq |-> q]>> : q \in SeqsUpTo(MaxOneArmLen)}

HasArm(prof, arm) == \E k \in 1..Len(prof) : prof[k].chrom = arm
SeqOf(prof, arm) == prof[CHOOSE k \in 1..Len(prof) : prof[k].chrom = arm].seq

\* The substitution matrices align is called with: arm -> state -> state ->
\* score.  One is complete, one lacks the arm chr01q, one lacks the state G.
FullMatrix ==
    [i \in Symbols |-> [j \in Symbols |->
        IF i # j THEN -2 ELSE IF i = "G" THEN 3 ELSE 1]]
OnlyNMatrix == [i \in {"N"} |-> [j \in {"N"} |-> 1]]
SubMatrices ==
    { [c \in {"chr01p", "chr01q"} |-> FullMatrix],
      [c \in {"chr01p"} |-> FullMatrix],
      [c \in {"chr01p", "chr01q"} |-> OnlyNMatrix] }

\* The gap penalties: the defaults of Alignment.align and of the command line.
AlignDefaultGap == 10000
CommandLineGap == -100000
GapPenalties == {<<AlignDefaultGap, AlignDefaultGap>>,
                 <<CommandLineGap, CommandLineGap>>}

\* null_scores: None, or arm -> list of scores.  One table has a list for
\* both arms, one has no entry for chr01q, one has an empty list for chr01q.
NoNullScores == [given |-> FALSE]
NullScoreTables ==
    { NoNullScores,
      [given |-> TRUE,
       table |-> [c \in {"chr01p", "chr01q"} |->
                    IF c = "chr01p" THEN <<1, 3>> ELSE <<2>>]],
      [given |-> TRUE, table |-> [c \in {"chr01p"} |-> <<1, 3>>]],
      [given |-> TRUE,
       table |-> [c \in {"chr01p", "chr01q"} |->
                    IF c = "chr01p" THEN <<1, 3>> ELSE <<>>]] }

\* format_subst_matrix(subst_matrix): (i, j) -> subst_matrix[i][j]
format_subst_matrix(subst_matrix) ==
    [pr \in UNION {{<<i, j>> : j \in DOMAIN subst_matrix[i]} :
                      i \in DOMAIN subst_matrix} |->
        subst_matrix[pr[1]][pr[2]]]

\* dictionary_match with a score of 0 for a pair that is no key
dictionary_match_default(fm, a, b) ==
    IF <<a, b>> \in DOMAIN fm THEN [found |-> TRUE, score |-> fm[<<a, b>>]]
    ELSE IF <<b, a>> \in DOMAIN fm THEN [found |-> TRUE, score |-> fm[<<b, a>>]]
    ELSE [found |-> TRUE, score |-> 0]

\* pairwise2's dictionary_match: the entry of (a, b), or of (b, a) when
\* (a, b) is no key; a KeyError (found is FALSE) when neither is.
dictionary_match(fm, a, b) ==
    IF <<a, b>> \in DOMAIN fm THEN [found |-> TRUE, score |-> fm[<<a, b>>]]
    ELSE IF <<b, a>> \in DOMAIN fm THEN [found |-> TRUE, score |-> fm[<<b, a>>]]
    ELSE [found |-> FALSE]

HasScore(fm, a, b) == dictionary_match(fm, a, b).found

\* the match score with the entry of (N, N) for every pair
MatchScoreFlat(fm, a, b) == dictionary_match(fm, "N", "N").score

MatchScore(fm, a, b) == dictionary_match(fm, a, b).score

\* All global alignments of two sequences, as sequences of columns.
RECURSIVE Alignments(_, _)
Alignments(a, b) ==
    IF a = <<>> /\ b = <<>> THEN {<<>>}
    ELSE (IF a # <<>> /\ b # <<>>
          THEN {<< <<Head(a), Head(b)>> >> \o r : r \in Alignments(Tail(a), Tail(b))}
          ELSE {})
         \cup (IF a # <<>>
               THEN {<< <<Head(a), Gap>> >> \o r : r \in Alignments(Tail(a), b)}
               ELSE {})
         \cup (IF b # <<>>
               THEN {<< <<Gap, Head(b)>> >> \o r : r \in Alignments(a, Tail(b))}
               ELSE {})

\* The score of column k: a match score, or the penalty of opening or of
\* extending a gap in that sequence.
ColumnScore(al, k, fm, open, extend) ==
    LET col == al[k]
    IN  IF col[1] # Gap /\ col[2] # Gap THEN MatchScore(fm, col[1], col[2])
        ELSE LET side == IF col[1] = Gap THEN 1 ELSE 2
             IN  IF k > 1 /\ al[k-1][side] = Gap THEN extend ELSE open

RECURSIVE ScoreFrom(_, _, _, _, _)
ScoreFrom(al, k, fm, open, extend) ==
    IF k > Len(al) THEN 0
    ELSE ColumnScore(al, k, fm, open, extend) + ScoreFrom(al, k + 1, fm, open, extend)

AlignmentScore(al, fm, open, extend) == ScoreFrom(al, 1, fm, open, extend)

\* The results globalds can put first: the alignments of maximal score.
globalds(seq1, seq2, fm, open, extend) ==
    LET all    == Alignments(seq1, seq2)
        scores == {AlignmentScore(al, fm, open, extend) : al \in all}
        best   == SetMax(scores)
    IN  {al \in all : AlignmentScore(al, fm, open, extend) = best}

CountGaps(al, side) == Cardinality({k \in 1..Len(al) : al[k][side] = Gap})

\* match_proba and mismatch_proba with a tie counted as a mismatch
ProbabilitiesStrict(nulls, adjusted) ==
    LET bigger  == Cardinality({k \in 1..Len(nulls) :
                                  nulls[k] * adjusted.den > adjusted.num})
        smaller == Cardinality({k \in 1..Len(nulls) :
                                  nulls[k] * adjusted.den <= adjusted.num})
    IN  << Frac(bigger, Len(nulls)), Frac(smaller, Len(nulls)) >>

\* match_proba and mismatch_proba with a tie counted on both sides
ProbabilitiesInclusive(nulls, adjusted) ==
    LET bigger  == Cardinality({k \in 1..Len(nulls) :
                                  nulls[k] * adjusted.den >= adjusted.num})
        smaller == Cardinality({k \in 1..Len(nulls) :
                                  nulls[k] * adjusted.den <= adjusted.num})
    IN  << Frac(bigger, Len(nulls)), Frac(smaller, Len(nulls)) >>

\* match_proba and mismatch_proba of an adjusted score against a null list
Probabilities(nulls, adjusted) ==
    LET bigger  == Cardinality({k \in 1..Len(nulls) :
                                  nulls[k] * adjusted.den >= adjusted.num})
        smaller == Cardinality({k \in 1..Len(nulls) :
                                  nulls[k] * adjusted.den < adjusted.num})
    IN  << Frac(bigger, Len(nulls)), Frac(smaller, Len(nulls)) >>

\* alignments[arm] for the first result al; proba is <<>> without null scores
ArmResult(arm, al, fm, open, extend, proba) ==
    [arm |-> arm,
     seq1 |-> [k \in 1..Len(al) |-> al[k][1]],
     seq2 |-> [k \in 1..Len(al) |-> al[k][2]],
     score |-> AlignmentScore(al, fm, open, extend),
     adjusted_score |-> Frac(AlignmentScore(al, fm, open, extend), Len(al)),
     seq1_gaps |-> CountGaps(al, 1),
     seq2_gaps |-> CountGaps(al, 2),
     proba |-> proba]

\* One pass of the loop over the arms of profile1: the exception it raises,
\* or "ok" with the results it can produce.  In globalds, affine_penalty
\* raises ValueError for a positive penalty, an empty sequence gives an
\* empty result list (result[0] is an IndexError), and the match dictionary
\* is read for every pair of symbols of the two sequences.
ArmOutcomes(arm, seq1, prof2, sub_matrix, open, extend, null_scores) ==
    IF arm \notin DOMAIN sub_matrix THEN {[status |-> "KeyError"]}
    ELSE IF ~HasArm(prof2, arm) THEN {[status |-> "KeyError"]}
    ELSE IF open > 0 \/ extend > 0 THEN {[status |-> "ValueError"]}
    ELSE
    LET fm   == format_subst_matrix(sub_matrix[arm])
        seq2 == SeqOf(prof2, arm)
    IN  IF seq1 = <<>> \/ seq2 = <<>> THEN {[status |-> "IndexError"]}
        ELSE IF \E k1 \in 1..Len(seq1), k2 \in 1..Len(seq2) :
                    ~HasScore(fm, seq1[k1], seq2[k2])
        THEN {[status |-> "KeyError"]}
        ELSE IF ~null_scores.given
        THEN {[status |-> "ok",
               result |-> ArmResult(arm, al, fm, open, extend, <<>>)] :
                 al \in globalds(seq1, seq2, fm, open, extend)}
        ELSE IF arm \notin DOMAIN null_scores.table
        THEN {[status |-> "KeyError"]}
        ELSE IF null_scores.table[arm] = <<>>
        THEN {[status |-> "ZeroDivisionError"]}
        ELSE {[status |-> "ok",
               result |-> ArmResult(arm, al, fm, open, extend,
                            Probabilities(null_scores.table[arm],
                                Frac(AlignmentScore(al, fm, open, extend), Len(al))))] :
                 al \in globalds(seq1, seq2, fm, open, extend)}

\* The loop over the arms of profile1 from arm k on, with the results so far.
RECURSIVE ArmLoop(_, _, _, _, _, _, _, _)
ArmLoop(prof1, k, alignments, prof2, sub_matrix, open, extend, null_scores) ==
    IF k > Len(prof1) THEN {[status |-> "ok", alignments |-> alignments]}
    ELSE UNION {
           IF o.status = "ok"
           THEN ArmLoop(prof1, k + 1, Append(alignments, o.result), prof2,
                        sub_matrix, open, extend, null_scores)
           ELSE {[status |-> o.status, alignments |-> alignments]} :
           o \in ArmOutcomes(prof1[k].chrom, prof1[k].seq, prof2, sub_matrix,
                             open, extend, null_scores) }

\* assert len(profile1_dict) == len(profile2_dict), without the check
ArmCountUnchecked(prof1, prof2) == TRUE

\* assert len(profile1_dict) == len(profile2_dict)
ArmCountAssertion(prof1, prof2) == Len(prof1) = Len(prof2)

\* no align call is singled out
NoArgs == [given |-> FALSE]

\* the arguments a caller can pass to align
AlignArgs ==
    {[given |-> TRUE, sub_matrix |-> m, gap_open |-> g[1], gap_extend |-> g[2],
      null_scores |-> n] :
        m \in SubMatrices, g \in GapPenalties, n \in NullScoreTables}

AlIdle ==
    /\ profile1 = <<>>
    /\ profile2 = <<>>
    /\ alignment = <<>>
    /\ al_status = None
    /\ al_returned = <<>>
    /\ al_done = 0
    /\ al_args = NoArgs
    /\ al_drawn = {}
    /\ al_succeeded = FALSE
    /\ pl_status = None

\* A = Alignment(profile1, profile2)
AlInit ==
    /\ profile1 \in Profiles
    /\ profile2 \in Profiles
    /\ alignment = <<>>
    /\ al_status = None
    /\ al_returned = <<>>
    /\ al_done = 0
    /\ al_args = NoArgs
    /\ al_drawn = {}
    /\ al_succeeded = FALSE
    /\ pl_status = None

\* self.alignment after the loop, had the results been stored arm by arm
StoredEagerly(stored, out) == out.alignments

\* self.alignment after the loop: alignments is a local dictionary, assigned
\* to self.alignment after the last arm only
StoredAlignment(stored, out) ==
    IF out.status = "ok" THEN out.alignments ELSE stored

\* A.align(sub_matrix, gap_open, gap_extend, null_scores)
Align(sub_matrix, gap_open, gap_extend, null_scores) ==
    /\ IF ~ArmCountAssertion(profile1, profile2)
       THEN /\ al_status' = "AssertionError"
            /\ al_returned' = <<>>
            /\ al_done' = 0
            /\ UNCHANGED <<alignment, al_succeeded>>
       ELSE \E out \in ArmLoop(profile1, 1, <<>>, profile2, sub_matrix,
                               gap_open, gap_extend, null_scores) :
              /\ al_status' = out.status
              /\ al_done' = Len(out.alignments)
              /\ alignment' = StoredAlignment(alignment, out)
              /\ IF out.status = "ok"
                 THEN /\ al_returned' = out.alignments
                      /\ al_succeeded' = TRUE
                 ELSE /\ UNCHANGED al_succeeded
                      /\ al_returned' = <<>>
    /\ UNCHANGED <<profile1, profile2, al_args, al_drawn, pl_status,
                   segvars, blvars, smvars, mnvars, cgvars>>

AlNext ==
    \E sub_matrix \in SubMatrices, gap \in GapPenalties,
       null_scores \in NullScoreTables :
        Align(sub_matrix, gap[1], gap[2], null_scores)

InitBlosum == SegIdle /\ BlInit /\ AlIdle /\ OthersIdle
SpecBlosum == InitBlosum /\ [][BlNext]_vars

InitAlign == SegIdle /\ BlIdle /\ AlInit /\ OthersIdle
SpecAlign == InitAlign /\ [][AlNext]_vars

\* One align call on a new Alignment, with its arguments kept in al_args:
\* A = Alignment(profile1, profile2); A.align(**al_args)
AlCallInit ==
    /\ \E pair \in (Profiles \X Profiles) \cup (OneArmProfiles \X OneArmProfiles) :
          profile1 = pair[1] /\ profile2 = pair[2]
    /\ alignment = <<>>
    /\ al_status = None
    /\ al_returned = <<>>
    /\ al_done = 0
    /\ al_args \in AlignArgs
    /\ al_drawn = {}
    /\ al_succeeded = FALSE
    /\ pl_status = None

AlignCall ==
    /\ al_args.given
    /\ al_status = None
    /\ Align(al_args.sub_matrix, al_args.gap_open, al_args.gap_extend,
             al_args.null_scores)

InitAlignCall == SegIdle /\ BlIdle /\ AlCallInit /\ OthersIdle
SpecAlignCall == InitAlignCall /\ [][AlignCall]_vars

(***************************************************************************)
(* align.py: Alignment.plot, and plot.py: plot_alignment.  The matplotlib  *)
(* calls are taken to succeed; what is modelled is which figures are drawn *)
(* and the exceptions of the Python code around them.                      *)
(***************************************************************************)
\* chromosomes=None, or a list of arms
ChromosomeArgs ==
    { [given |-> FALSE],
      [given |-> TRUE, list |-> <<"chr01p">>],
      [given |-> TRUE, list |-> <<"chr01p", "chr11p">>] }
FigNames == {None, "fig"}

\* list.index(x), from 1; 0 stands for the ValueError of an absent x
IndexOf(list, x) ==
    IF \E k \in 1..Len(list) : list[k] = x
    THEN SetMin({k \in 1..Len(list) : list[k] = x})
    ELSE 0

\* seq.replace('-', '')
RECURSIVE StripGaps(_)
StripGaps(seq) ==
    IF seq = <<>> THEN <<>>
    ELSE IF Head(seq) = Gap THEN StripGaps(Tail(seq))
    ELSE <<Head(seq)>> \o StripGaps(Tail(seq))

\* get_chrom_proportions: total, the bins of seq1 over all arms
RECURSIVE TotalBins(_)
TotalBins(al) ==
    IF al = <<>> THEN 0 ELSE Len(StripGaps(Head(al).seq1)) + TotalBins(Tail(al))

\* plot_alignment: the loop over the arms of order, from index idx on
RECURSIVE PlotArms(_, _, _, _)
PlotArms(al, order, idx, null_given) ==
    IF idx > Len(order) THEN "ok"
    ELSE IF idx > Len(al) THEN "IndexError"
    ELSE IF ~HasArm([k \in 1..Len(al) |-> [chrom |-> al[k].arm]], order[idx])
    THEN "KeyError"
    ELSE LET r == al[CHOOSE k \in 1..Len(al) : al[k].arm = order[idx]]
         IN  IF Len(StripGaps(r.seq2)) < Len(StripGaps(r.seq1)) THEN "IndexError"
             ELSE IF null_given /\ r.proba = <<>> THEN "KeyError"
             ELSE PlotArms(al, order, idx + 1, null_given)

\* plot_alignment(alignment, order, null_scores, ...): "ok" when the figure
\* is drawn, or the exception
plot_alignment(al, order, null_given) ==
    IF al = <<>> THEN "TypeError"
    ELSE IF TotalBins(al) = 0 THEN "ZeroDivisionError"
    ELSE PlotArms(al, order, 1, null_given)

\* if self.alignment is None, without the test
NoAlignmentUnchecked(al) == FALSE

\* if self.alignment is None
NoAlignment(al) == al = <<>>

\* A.plot(chromosomes, null_scores, save=save, figname=figname, split=split)
Plot(chromosomes, null_given, figname, split, save) ==
    /\ IF NoAlignment(alignment)
       THEN pl_status' = "Exception" /\ UNCHANGED al_drawn
       ELSE IF ~chromosomes.given
       THEN pl_status' = "TypeError" /\ UNCHANGED al_drawn
       ELSE
       LET order == chromosomes.list
           pos   == IndexOf(order, IF split THEN "chr11p" ELSE "chr12")
           first == plot_alignment(alignment, SubSeq(order, 1, pos - 1), null_given)
           second == plot_alignment(alignment, SubSeq(order, pos, Len(order)),
                                    null_given)
           fig1 == [figure |-> "_chr1-chr10", saved |-> save]
           fig2 == [figure |-> "_chr10-chr22", saved |-> save]
       IN  IF pos = 0
           THEN pl_status' = "ValueError" /\ UNCHANGED al_drawn
           ELSE IF figname = None
           THEN pl_status' = "TypeError" /\ UNCHANGED al_drawn
           ELSE IF first # "ok"
           THEN pl_status' = first /\ UNCHANGED al_drawn
           ELSE IF second # "ok"
           THEN pl_status' = second /\ al_drawn' = al_drawn \cup {fig1}
           ELSE pl_status' = "ok" /\ al_drawn' = al_drawn \cup {fig1, fig2}
    /\ UNCHANGED <<profile1, profile2, alignment, al_status, al_returned,
                   al_done, al_args, al_succeeded, segvars, blvars, smvars, mnvars, cgvars>>

PlotNext ==
    \E chromosomes \in ChromosomeArgs, null_given \in BOOLEAN,
       figname \in FigNames, split \in BOOLEAN, save \in BOOLEAN :
        Plot(chromosomes, null_given, figname, split, save)

\* The profiles, matrices and null scores of the Alignment objects whose
\* use is followed call by call: arms chr01p and chr11p.
UsageProfiles ==
    { <<[chrom |-> "chr01p", seq |-> <<"N">>]>>,
      <<[chrom |-> "chr01p", seq |-> <<"N">>],
        [chrom |-> "chr11p", seq |-> <<"G">>]>>,
      <<[chrom |-> "chr01p", seq |-> <<"N">>],
        [chrom |-> "chr11p", seq |-> <<"G", "N">>]>> }
UsageMatrices ==
    { [c \in {"chr01p", "chr11p"} |-> FullMatrix],
      [c \in {"chr01p"} |-> FullMatrix] }
UsageNullScores ==
    { NoNullScores,
      [given |-> TRUE, table |-> [c \in {"chr01p", "chr11p"} |-> <<1, 3>>]],
      [given |-> TRUE, table |-> [c \in {"chr01p"} |-> <<1, 3>>]] }

UsageInit ==
    /\ profile1 \in UsageProfiles
    /\ profile2 \in UsageProfiles
    /\ alignment = <<>>
    /\ al_status = None
    /\ al_returned = <<>>
    /\ al_done = 0
    /\ al_args = NoArgs
    /\ al_drawn = {}
    /\ al_succeeded = FALSE
    /\ pl_status = None

UsageAlign ==
    \E sub_matrix \in UsageMatrices, gap \in GapPenalties,
       null_scores \in UsageNullScores :
        Align(sub_matrix, gap[1], gap[2], null_scores)

UsageNext == UsageAlign \/ PlotNext

InitUsage == SegIdle /\ BlIdle /\ UsageInit /\ OthersIdle
SpecUsage == InitUsage /\ [][UsageNext]_vars

(***************************************************************************)
(* utils.py: format_alignment_results and summarize_results, as main       *)
(* chains them: one dataframe per pair, then the summary of the batch.     *)
(* Scores are integers and probabilities exact fractions.                  *)
(***************************************************************************)
FracAdd(x, y) == Frac(x.num * y.den + y.num * x.den, x.den * y.den)
FracLeq(x, y) == x.num * y.den <= y.num * x.den

\* The match probabilities of the model: the six thresholds of the summary
\* are met by a match_proba or by its mismatch_proba 1 - match_proba.
ProbaValues ==
    {Frac(1, 20), Frac(1, 10), Frac(1, 5), Frac(2, 5), Frac(1, 2), Frac(3, 5)}
OneMinus(x) == Frac(x.den - x.num, x.den)

\* alignments[arm], as far as format_alignment_results reads it
ScoredArm(arm, score, len, proba) ==
    [arm |-> arm, score |-> score, adjusted_score |-> Frac(score, len),
     proba |-> proba]

\* The alignment results of one sample pair: one arm with every match
\* probability, two arms, and results computed without null scores.
PairResults ==
    {<<ScoredArm("chr01p", 3, 2, <<m, OneMinus(m)>>)>> : m \in ProbaValues}
    \cup {<<ScoredArm("chr01p", 1, 1, <<Frac(1, 20), Frac(19, 20)>>),
            ScoredArm("chr01q", -2, 1, <<Frac(3, 5), Frac(2, 5)>>)>>,
          <<ScoredArm("chr01p", 1, 1, <<>>)>>,
          <<ScoredArm("chr01p", 3, 1, <<>>), ScoredArm("chr01q", 1, 2, <<>>)>>}

ExpIds == {"PATIENT", "EXP2"}

\* format_alignment_results(alignment, null_scores): the rows of the
\* dataframe, or the KeyError of a result without match_proba
format_alignment_results(al, null_given) ==
    IF null_given /\ \E k \in 1..Len(al) : al[k].proba = <<>>
    THEN [status |-> "KeyError"]
    ELSE [status |-> "ok",
          df |-> [k \in 1..Len(al) |->
                    [arm |-> al[k].arm, score |-> al[k].score,
                     adjusted_score |-> al[k].adjusted_score,
                     proba |-> IF null_given THEN al[k].proba ELSE <<>>]]]

RECURSIVE SumFracs(_)
SumFracs(xs) == IF xs = <<>> THEN Frac(0, 1) ELSE FracAdd(Head(xs), SumFracs(Tail(xs)))

\* statistics.mean
mean(xs) == FracDiv(SumFracs(xs), Frac(Len(xs), 1))

RECURSIVE Insert(_, _)
Insert(x, sorted) ==
    IF sorted = <<>> THEN <<x>>
    ELSE IF FracLeq(x, Head(sorted)) THEN <<x>> \o sorted
    ELSE <<Head(sorted)>> \o Insert(x, Tail(sorted))

RECURSIVE SortFracs(_)
SortFracs(xs) == IF xs = <<>> THEN <<>> ELSE Insert(Head(xs), SortFracs(Tail(xs)))

\* statistics.median
median(xs) ==
    LET sorted == SortFracs(xs)
        n      == Len(xs)
    IN  IF n % 2 = 1 THEN sorted[(n + 1) \div 2]
        ELSE FracDiv(FracAdd(sorted[n \div 2], sorted[n \div 2 + 1]), Frac(2, 1))

\* the cut-offs of summarize_results, in the order of its columns
MatchThresholds == <<Frac(5, 100), Frac(10, 100), Frac(20, 100)>>
MismatchThresholds == <<Frac(60, 100), Frac(50, 100), Frac(40, 100)>>

\* i < threshold
Below(x, threshold) == x.num * threshold.den < threshold.num * x.den

\* i <= threshold
AtMost(x, threshold) == FracLeq(x, threshold)

\* len([i for i in probas if i <= threshold]); column is 1 for match_proba
\* and 2 for mismatch_proba
CountAtMost(rows, column, threshold) ==
    Cardinality({k \in 1..Len(rows) : AtMost(rows[k].proba[column], threshold)})

\* the row summarize_results makes of the dataframe of one pair
SummaryOf(entry, exp_id, null_given) ==
    LET rows     == entry.df
        scores   == [k \in 1..Len(rows) |-> Frac(rows[k].score, 1)]
        adjusted == [k \in 1..Len(rows) |-> rows[k].adjusted_score]
    IN  [id |-> exp_id,
         pair |-> entry.pair,
         total_score |-> SumFracs(scores),
         mean_score |-> mean(scores),
         median_score |-> median(scores),
         total_adjusted_score |-> SumFracs(adjusted),
         mean_adjusted_score |-> mean(adjusted),
         median_adjusted_score |-> median(adjusted),
         counts |-> IF null_given
                    THEN [c \in 1..6 |->
                            IF c <= 3
                            THEN CountAtMost(rows, 1, MatchThresholds[c])
                            ELSE CountAtMost(rows, 2, MismatchThresholds[c - 3])]
                    ELSE <<>>]

\* summarize_results(dfs, exp_id, null_scores): one row for every entry of
\* dfs; the KeyError of a dataframe without the probability columns
summarize_results(dfs, exp_id, null_given) ==
    IF null_given /\ \E k \in 1..Len(dfs) :
                        \E r \in 1..Len(dfs[k].df) : dfs[k].df[r].proba = <<>>
    THEN [status |-> "KeyError"]
    ELSE [status |-> "ok",
          rows |-> [k \in 1..Len(dfs) |-> SummaryOf(dfs[k], exp_id, null_given)]]

\* The sequences over S of length at most n.
RECURSIVE ListsUpTo(_, _)
ListsUpTo(S, n) ==
    IF n = 0 THEN {<<>>}
    ELSE LET shorter == ListsUpTo(S, n - 1)
         IN  shorter \cup {Append(q, x) : q \in shorter, x \in S}

SmInit ==
    /\ sm_results \in ListsUpTo(PairResults, MaxPairs)
    /\ sm_null \in BOOLEAN
    /\ sm_exp_id \in ExpIds
    /\ sm_dfs = <<>>
    /\ sm_summary = <<>>
    /\ sm_status = None

\* df = format_alignment_results(results, null_scores); dfs[pair] = df
FormatPair ==
    /\ sm_status = None
    /\ Len(sm_dfs) < Len(sm_results)
    /\ LET pair == Len(sm_dfs) + 1
           out  == format_alignment_results(sm_results[pair], sm_null)
       IN  IF out.status = "ok"
           THEN /\ sm_dfs' = Append(sm_dfs, [pair |-> pair, df |-> out.df])
                /\ UNCHANGED sm_status
           ELSE /\ sm_status' = out.status
                /\ UNCHANGED sm_dfs
    /\ UNCHANGED <<sm_results, sm_null, sm_exp_id, sm_summary,
                   segvars, blvars, alvars, mnvars, cgvars>>

\* df = summarize_results(dfs, args.exp_id, null_scores)
SummarizeResults ==
    /\ sm_status = None
    /\ Len(sm_dfs) = Len(sm_results)
    /\ LET out == summarize_results(sm_dfs, sm_exp_id, sm_null)
       IN  /\ sm_status' = out.status
           /\ sm_summary' = IF out.status = "ok" THEN out.rows ELSE <<>>
    /\ UNCHANGED <<sm_results, sm_null, sm_exp_id, sm_dfs,
                   segvars, blvars, alvars, mnvars, cgvars>>

SmNext == FormatPair \/ SummarizeResults

InitSummary == SegIdle /\ BlIdle /\ AlIdle /\ SmInit /\ MnIdle /\ CgIdle
SpecSummary == InitSummary /\ [][SmNext]_vars

(***************************************************************************)
(* cnp-align.py: main, for the default format 'clonality' and bin size 1.  *)
(* The state is taken after the input, the matrix and the null scores are  *)
(* read (lines 58-80); one action is the body of the loop for one pair.    *)
(***************************************************************************)
SegmentRow(chrom, s, e, state) ==
    [ID |-> SampleId, chrom |-> chrom, loc_start |-> s, loc_end |-> e,
     num_mark |-> "observed", seg_mean |-> "observed", state |-> state,
     fill |-> None]

\* The segment tables of a sample: contiguous, with a gap, and with rows
\* of an arm outside the canonical order only.
SampleTables ==
    { <<SegmentRow("chr01p", 0, 1, "N")>>,
      <<SegmentRow("chr01p", 0, 0, "N"), SegmentRow("chr01p", 3, 3, "G")>>,
      <<SegmentRow("chrXp", 0, 0, "N")>> }

MainArgs ==
    [given : {TRUE}, autoresolve : BOOLEAN, null_given : BOOLEAN,
     exp_id : {"PATIENT"}]

\* The pairs (s1, s2) the two loops reach with s1 != s2 and {s1, s2} not
\* observed, in their order, for samples 1..n.
RECURSIVE PairsFrom(_, _, _)
PairsFrom(s1, s2, n) ==
    IF s1 > n THEN <<>>
    ELSE IF s2 > n THEN PairsFrom(s1 + 1, s1 + 2, n)
    ELSE <<<<s1, s2>>>> \o PairsFrom(s1, s2 + 1, n)

SamplePairsInOrder(n) == PairsFrom(1, 2, n)

\* sample = autoresolve(sample, args.bin_size) if args.autoresolve
MainResolve(table, args) ==
    IF ~args.autoresolve THEN [status |-> "ok", table |-> table]
    ELSE IF autoresolve(table, 1) = <<>> THEN [status |-> "KeyError"]
    ELSE [status |-> "ok", table |-> autoresolve(table, 1)]

\* A.align(matrix, format=args.format, gap_open=..., gap_extend=...,
\* null_scores=null_scores): Alignment.align has no parameter format
MainAlign(prof1, prof2, args) == [status |-> "TypeError"]

\* The body of the loop for one pair, up to the exception that ends it.
PairOutcome(pair, data, args) ==
    LET sample1 == MainResolve(data[pair[1]], args)
        sample2 == MainResolve(data[pair[2]], args)
    IN  IF sample1.status # "ok" THEN sample1.status
        ELSE IF sample2.status # "ok" THEN sample2.status
        ELSE MainAlign(Profile(sample1.table, 1), Profile(sample2.table, 1),
                       args).status

SummaryFile(args, rows) ==
    [name |-> "alignment_stats.csv", id |-> args.exp_id, rows |-> rows]

MnInit ==
    /\ mn_data \in ListsUpTo(SampleTables, MaxBatch)
    /\ mn_args \in MainArgs
    /\ mn_pc = "loop"
    /\ mn_status = None
    /\ mn_attempted = <<>>
    /\ mn_observed = <<>>
    /\ mn_files = {}

\* lines 83-120 for the next pair: no exception is caught, so the first one
\* ends main
ProcessPair ==
    /\ mn_pc = "loop"
    /\ Len(mn_attempted) < Len(SamplePairsInOrder(Len(mn_data)))
    /\ LET pair == SamplePairsInOrder(Len(mn_data))[Len(mn_attempted) + 1]
           out  == PairOutcome(pair, mn_data, mn_args)
       IN  /\ mn_attempted' = Append(mn_attempted, pair)
           /\ mn_status' = out
           /\ mn_pc' = "aborted"
    /\ UNCHANGED <<mn_data, mn_args, mn_observed, mn_files,
                   segvars, blvars, alvars, smvars, cgvars>>

\* lines 124-125, after the loops: dfs has the dataframes of the observed
\* pairs
WriteSummary ==
    /\ mn_pc = "loop"
    /\ Len(mn_attempted) = Len(SamplePairsInOrder(Len(mn_data)))
    /\ mn_files' = mn_files \cup
          {SummaryFile(mn_args,
              summarize_results(<<>>, mn_args.exp_id, mn_args.null_given).rows)}
    /\ mn_pc' = "done"
    /\ UNCHANGED <<mn_data, mn_args, mn_status, mn_attempted, mn_observed,
                   segvars, blvars, alvars, smvars, cgvars>>

MnNext == ProcessPair \/ WriteSummary

InitMain == SegIdle /\ BlIdle /\ AlIdle /\ SmIdle /\ MnInit /\ CgIdle
SpecMain == InitMain /\ [][MnNext]_vars

(***************************************************************************)
(* CGHcall.py: the conversion of a CGHcall table, one row per bin and one  *)
(* column (convert_CGHcall) or one group of columns (convert_CGHcall_probs)*)
(* per sample, into a segment table.  The table of the model has one       *)
(* sample; of the columns CALL, PROBAMP, PROBGAIN, PROBNORM, PROBLOSS and  *)
(* PROBDEL it has CALL and PROBNORM, the latter in tenths.  A bin is named *)
(* chrom:start-end, which the model holds as a record.                     *)
(***************************************************************************)
MaxBins == 3

\* the number of positions of a bin: loc.end - loc.start + 1
CGHBinWidth == 2

\* the chromosome names of the 'bin' column, in the order of the file
CGHChromNames == <<"1", "10">>

\* missing bins between a row and the next one of its chromosome
BinGaps == {0, 1}

\* the values of a bin for the sample: its call and its probability of normal
BinData ==
    { [CALL |-> 0, PROBNORM |-> 9], [CALL |-> 0, PROBNORM |-> 6],
      [CALL |-> 1, PROBNORM |-> 1] }

proba_cols == <<"CALL", "PROBNORM">>

\* convert_to_char, for one value of a column
convert_to_char(i) ==
    CASE i = 0  -> "N"
      [] i = -1 -> "L"
      [] i = -2 -> "D"
      [] i = 1  -> "G"
      [] i = 2  -> "A"
      [] OTHER  -> i

\* add_chr_str, for one value of the column
add_chr_str(i) == IF Len(i) = 1 THEN "chr0" \o i ELSE "chr" \o i

\* The columns chrom, loc.start and loc.end, parsed from the name of the bin.
WithPositions(table) ==
    [k \in 1..Len(table) |->
        [chrom |-> add_chr_str(table[k].bin.chrom),
         loc_start |-> table[k].bin.start,
         loc_end |-> table[k].bin.end,
         CALL |-> table[k].CALL,
         PROBNORM |-> table[k].PROBNORM]]

\* df[col] = convert_to_char(df[col]) for the column of the sample
WithChars(table) ==
    [k \in 1..Len(table) |-> [table[k] EXCEPT !.CALL = convert_to_char(@)]]

\* df['chrom'].unique()
UniqueChroms(rows) == Unique([k \in 1..Len(rows) |-> rows[k].chrom])

\* temp_dict of convert_CGHcall: a segment that starts with the bin row
CallSegment(sample, chrom, row) ==
    [ID |-> sample, chrom |-> chrom, loc_start |-> row.loc_start,
     loc_end |-> row.loc_end, state |-> row.CALL]

\* The loop of convert_CGHcall over the bins cnvs of one chromosome for one
\* sample, from the bin of index i - 1 on: tracker is tracker_dict[sample].
RECURSIVE CallLoop(_, _, _, _, _, _)
CallLoop(sample, chrom, cnvs, i, tracker, segments) ==
    IF i > Len(cnvs) THEN segments
    ELSE IF i = 1
    THEN CallLoop(sample, chrom, cnvs, i + 1,
                  CallSegment(sample, chrom, cnvs[i]), segments)
    ELSE IF tracker.loc_end + 1 # cnvs[i].loc_start
    THEN CallLoop(sample, chrom, cnvs, i + 1,
                  CallSegment(sample, chrom, cnvs[i]), Append(segments, tracker))
    ELSE IF i = Len(cnvs)
    THEN CallLoop(sample, chrom, cnvs, i + 1, tracker, Append(segments, tracker))
    ELSE IF tracker.state = cnvs[i].CALL
    THEN CallLoop(sample, chrom, cnvs, i + 1,
                  [tracker EXCEPT !.loc_end = cnvs[i].loc_end], segments)
    ELSE CallLoop(sample, chrom, cnvs, i + 1,
                  CallSegment(sample, chrom, cnvs[i]), Append(segments, tracker))

\* The segments convert_CGHcall collects: the chromosomes in the order of
\* the table.
CollapseCalls(table) ==
    LET rows   == WithPositions(WithChars(table))
        chroms == UniqueChroms(rows)
    IN  Concat([c \in 1..Len(chroms) |->
                  CallLoop(SampleId, chroms[c], Subset(rows, chroms[c]), 1,
                           <<>>, <<>>)])

\* temp_dict of convert_CGHcall_probs
ProbaSegment(sample, chrom, row) ==
    [ID |-> sample, chrom |-> chrom, loc_start |-> row.loc_start,
     loc_end |-> row.loc_end, CALL |-> row.CALL, PROBNORM |-> row.PROBNORM]

\* {key: value for key, value in dictionary.items() if key in proba_cols},
\* as the list of its values
ProbaValuesOf(dictionary) ==
    [k \in 1..Len(proba_cols) |-> dictionary[proba_cols[k]]]

\* check_proba_similarity: dict1 and dict2 are both made from dictionary1
check_proba_similarity(dictionary1, dictionary2) ==
    LET dict1 == ProbaValuesOf(dictionary1)
        dict2 == ProbaValuesOf(dictionary1)
    IN  dict1 = dict2

\* The loop of convert_CGHcall_probs over the bins of one chromosome for one
\* sample.
RECURSIVE ProbaLoop(_, _, _, _, _, _)
ProbaLoop(sample, chrom, cnvs, i, tracker, segments) ==
    IF i > Len(cnvs) THEN segments
    ELSE IF i = 1
    THEN ProbaLoop(sample, chrom, cnvs, i + 1,
                   ProbaSegment(sample, chrom, cnvs[i]), segments)
    ELSE IF tracker.loc_end + 1 # cnvs[i].loc_start
    THEN ProbaLoop(sample, chrom, cnvs, i + 1,
                   ProbaSegment(sample, chrom, cnvs[i]), Append(segments, tracker))
    ELSE IF i = Len(cnvs)
    THEN ProbaLoop(sample, chrom, cnvs, i + 1, tracker, Append(segments, tracker))
    ELSE IF check_proba_similarity(tracker, cnvs[i])
    THEN ProbaLoop(sample, chrom, cnvs, i + 1,
                   [tracker EXCEPT !.loc_end = cnvs[i].loc_end], segments)
    ELSE ProbaLoop(sample, chrom, cnvs, i + 1,
                   ProbaSegment(sample, chrom, cnvs[i]), Append(segments, tracker))

\* The segments convert_CGHcall_probs collects.
CollapseProbas(table) ==
    LET rows   == WithPositions(table)
        chroms == UniqueChroms(rows)
    IN  Concat([c \in 1..Len(chroms) |->
                  ProbaLoop(SampleId, chroms[c], Subset(rows, chroms[c]), 1,
                            <<>>, <<>>)])

\* autoresolve_CGHcall and autoresolve_CGHcall_proba: the loop header calls
\* get_chrom_order(split=False), and utils.get_chrom_order has no parameter
autoresolve_CGHcall(dataframe, B) == [status |-> "TypeError"]
autoresolve_CGHcall_proba(dataframe, B, cols) == [status |-> "TypeError"]

CgInit ==
    /\ cg_table = <<>>
    /\ cg_call = [given |-> FALSE]
    /\ cg_collapsed = <<>>
    /\ cg_segments = <<>>
    /\ cg_status = None

\* A row of the input file: the bins of a chromosome follow each other, the
\* first one starts at 1, a later one after the end of the previous row and
\* gap missing bins.
AddBin(c, gap, data) ==
    /\ cg_status = None
    /\ Len(cg_table) < MaxBins
    /\ LET chrom == CGHChromNames[c]
           last  == cg_table[Len(cg_table)]
           first == cg_table = <<>> \/ last.bin.chrom # chrom
           start == IF first THEN 1
                    ELSE last.bin.end + 1 + gap * CGHBinWidth
       IN  /\ (cg_table # <<>>) =>
                 \E b \in 1..c : CGHChromNames[b] = last.bin.chrom
           /\ first => (gap = 0)
           /\ cg_table' = Append(cg_table,
                 [bin |-> [chrom |-> chrom, start |-> start,
                           end |-> start + CGHBinWidth - 1],
                  CALL |-> data.CALL, PROBNORM |-> data.PROBNORM])
    /\ UNCHANGED <<cg_call, cg_collapsed, cg_segments, cg_status,
                   segvars, blvars, alvars, smvars, mnvars>>

\* The end of both conversions: segments = pd.DataFrame(segments), then the
\* autoresolve function if asked for.
Convert(name, resolve, segments, resolved) ==
    /\ cg_status = None
    /\ cg_table # <<>>
    /\ cg_call' = [given |-> TRUE, name |-> name, autoresolve |-> resolve]
    /\ cg_collapsed' = segments
    /\ IF resolve
       THEN /\ cg_status' = resolved.status
            /\ cg_segments' = IF resolved.status = "ok" THEN resolved.table
                              ELSE <<>>
       ELSE /\ cg_status' = "ok"
            /\ cg_segments' = segments
    /\ UNCHANGED <<cg_table, segvars, blvars, alvars, smvars, mnvars>>

\* convert_CGHcall(df, bin_size, autoresolve)
ConvertCGHcall(resolve) ==
    Convert("convert_CGHcall", resolve, CollapseCalls(cg_table),
            autoresolve_CGHcall(CollapseCalls(cg_table), CGHBinWidth))

\* convert_CGHcall_probs(df, bin_size, autoresolve)
ConvertCGHcallProbs(resolve) ==
    Convert("convert_CGHcall_probs", resolve, CollapseProbas(cg_table),
            autoresolve_CGHcall_proba(CollapseProbas(cg_table), CGHBinWidth,
                                      proba_cols))

CgNext ==
    \/ \E c \in 1..Len(CGHChromNames), gap \in BinGaps, data \in BinData :
          AddBin(c, gap, data)
    \/ \E resolve \in BOOLEAN : ConvertCGHcall(resolve)
    \/ \E resolve \in BOOLEAN : ConvertCGHcallProbs(resolve)

InitCGHcall == SegIdle /\ BlIdle /\ AlIdle /\ SmIdle /\ MnIdle /\ CgInit
SpecCGHcall == InitCGHcall /\ [][CgNext]_vars

Init == SegInit /\ BlIdle /\ AlIdle /\ OthersIdle
Next == SegNext
Spec == Init /\ [][Next]_vars

(***************************************************************************)
(* Vocabulary of the properties of autoresolve and Arm.                    *)
(***************************************************************************)
CanonicalChroms == SeqRange(get_chrom_order)
FillMarks == {"previous", "first_half", "second_half"}

\* The rows of a table as a multiset: row -> number of occurrences.
RowBag(d) ==
    [r \in SeqRange(d) |-> Cardinality({k \in 1..Len(d) : d[k] = r})]

\* The bin positions of an arm that starts at 0 which a row covers
\* (loc.start <= position <= loc.end, the test of Arm.__init__).
Covered(row, B) == {p \in row.loc_start..row.loc_end : p % B = 0}

\* Rows in ascending position, not overlapping, on the bin grid.
WellFormed(rows, B) ==
    /\ \A k \in 1..Len(rows) :
          /\ rows[k].loc_start <= rows[k].loc_end
          /\ rows[k].loc_start % B = 0
          /\ rows[k].loc_end % B = 0
    /\ \A k \in 2..Len(rows) : rows[k].loc_start > rows[k-1].loc_end

\* The adjacent pairs <<k-1, k>> of the rows of a chromosome.
Pairs(rows) == {k \in 2..Len(rows) : TRUE}

\* The rows autoresolve added that lie inside the gap before row k.
AddedInGap(chrom, k) ==
    LET old == Subset(before, chrom)
        new == Subset(df, chrom)
    IN  SelectSeq(SubSeq(new, Len(old) + 1, Len(new)),
                  LAMBDA r : /\ r.loc_start > old[k-1].loc_end
                             /\ r.loc_end < old[k].loc_start)

\* n_bins of the gap before row k of a chromosome of the input table, when
\* it is a whole number.
NBinsIs(chrom, k, n) ==
    LET old == Subset(before, chrom)
    IN  /\ old[k].loc_start # old[k-1].loc_end + bin_size
        /\ NBinsTimesB(old[k-1], old[k], bin_size) = n * bin_size

\* The number of bin positions missing between rows k-1 and k.
Missing(chrom, k) ==
    LET old == Subset(before, chrom)
    IN  Cardinality({p \in (old[k-1].loc_end + 1)..(old[k].loc_start - 1) :
                       p % bin_size = 0})

FirstRun == nruns = 1 /\ ar_status = "ok"

(***************************************************************************)
(* C1: autoresolve is idempotent: a second run returns exactly the rows    *)
(* (chrom, loc.start, loc.end, state, fill) of the first run.              *)
(* The formula states it for the tables whose observed rows are ascending,  *)
(* non-overlapping and on the bin grid.                                    *)
(***************************************************************************)
Observed(rows) == SelectSeq(rows, LAMBDA r : r.num_mark = "observed")

C1_Idempotent ==
    (nruns = 2 /\ \A chrom \in CanonicalChroms :
                     WellFormed(Observed(Subset(before, chrom)), bin_size))
        => (RowBag(df) = RowBag(before))

(***************************************************************************)
(* C2: coverage after autoresolution.  For an arm whose input rows are     *)
(* ascending, non-overlapping and on the bin grid, the Arm built from the  *)
(* output of autoresolve has no unassigned bin, and every bin position     *)
(* below the arm's end is covered by exactly one row of the output.        *)
(***************************************************************************)
C2_Coverage ==
    (FirstRun /\ profile # <<>>) =>
        \A a \in 1..Len(profile) :
            LET arm  == profile[a]
                rows == Subset(df, arm.chrom)
                old  == Subset(before, arm.chrom)
            IN  WellFormed(old, bin_size) =>
                  /\ arm.unassigned = 0
                  /\ SeqRange(arm.rng) =
                       {p \in 0..(old[Len(old)].loc_end - 1) : p % bin_size = 0}
                  /\ \A p \in SeqRange(arm.rng) :
                        Cardinality({k \in 1..Len(rows) :
                                       p \in Covered(rows[k], bin_size)}) = 1

C2_Witness ==
    /\ FirstRun
    /\ profile # <<>>
    /\ \E a \in 1..Len(profile) :
          /\ WellFormed(Subset(before, profile[a].chrom), bin_size)
          /\ Len(profile[a].rng) >= 5
          /\ \E k \in 1..Len(df) :
                df[k].chrom = profile[a].chrom /\ df[k].fill = "second_half"

(***************************************************************************)
(* C3: a gap with n_bins == 4 between an N segment and a following G       *)
(* segment gets exactly two fill rows of 2 bin positions each: N with      *)
(* 'first_half', then G with 'second_half'.                                *)
(***************************************************************************)
C3_FourBinGap ==
    FirstRun =>
        \A chrom \in CanonicalChroms :
            LET old == Subset(before, chrom)
            IN  WellFormed(old, bin_size) =>
                \A k \in Pairs(old) :
                    (/\ NBinsIs(chrom, k, 4)
                     /\ old[k-1].state = "N"
                     /\ old[k].state = "G") =>
                        LET add == AddedInGap(chrom, k)
                        IN  /\ Len(add) = 2
                            /\ add[1].state = "N" /\ add[1].fill = "first_half"
                            /\ add[2].state = "G" /\ add[2].fill = "second_half"
                            /\ Cardinality(Covered(add[1], bin_size)) = 2
                            /\ Cardinality(Covered(add[2], bin_size)) = 2

(***************************************************************************)
(* C4: for every gap split in two (n_bins > 1), the 'first_half' row       *)
(* covers at least as many bin positions as the 'second_half' row, and     *)
(* exactly one more when the number of missing bins is odd.                *)
(***************************************************************************)
C4_FirstHalfLarger ==
    FirstRun =>
        \A chrom \in CanonicalChroms :
            LET old == Subset(before, chrom)
            IN  WellFormed(old, bin_size) =>
                \A k \in Pairs(old) :
                    LET add == AddedInGap(chrom, k)
                    IN  (Len(add) = 2 /\ add[1].fill = "first_half"
                                      /\ add[2].fill = "second_half") =>
                          LET c1 == Cardinality(Covered(add[1], bin_size))
                              c2 == Cardinality(Covered(add[2], bin_size))
                          IN  /\ c1 >= c2
                              /\ (Missing(chrom, k) % 2 = 1) => (c1 = c2 + 1)

(***************************************************************************)
(* C5: when exactly one bin position is missing between two adjacent       *)
(* segments, autoresolve inserts exactly one fill entry, which covers that *)
(* single bin, has the state of the preceding segment and the marker       *)
(* 'previous'.                                                             *)
(***************************************************************************)
C5_OneMissingBin ==
    FirstRun =>
        \A chrom \in CanonicalChroms :
            LET old == Subset(before, chrom)
                new == Subset(df, chrom)
            IN  WellFormed(old, bin_size) =>
                \A k \in Pairs(old) :
                    (Missing(chrom, k) = 1) =>
                        \E j \in (Len(old) + 1)..Len(new) :
                            /\ Covered(new[j], bin_size) =
                                 {old[k-1].loc_end + bin_size}
                            /\ new[j].state = old[k-1].state
                            /\ new[j].fill = "previous"

(***************************************************************************)
(* C6: when n_bins of a gap is 0, autoresolve adds no row for the gap; it  *)
(* only increases the preceding row's loc.end by one bin_size and marks    *)
(* the row 'modified', and then next.start == previous.end + bin_size.     *)
(* The rows added to the chromosome are those of its other gaps: one for   *)
(* a gap with n_bins == 1 and two for any other gap with n_bins # 0; in a  *)
(* well-formed table no added row lies inside the gap.                     *)
(***************************************************************************)
Gapped(old, k) == old[k].loc_start # old[k-1].loc_end + bin_size

OneRowGaps(old) ==
    {k \in Pairs(old) :
        Gapped(old, k) /\ NBinsTimesB(old[k-1], old[k], bin_size) = bin_size}

TwoRowGaps(old) ==
    {k \in Pairs(old) :
        Gapped(old, k) /\ NBinsTimesB(old[k-1], old[k], bin_size) \notin {0, bin_size}}

C6_ZeroBins ==
    FirstRun =>
        \A chrom \in CanonicalChroms :
            LET old == Subset(before, chrom)
                new == Subset(df, chrom)
            IN  \A k \in Pairs(old) :
                    NBinsIs(chrom, k, 0) =>
                        /\ Len(new) - Len(old) =
                             Cardinality(OneRowGaps(old)) +
                             2 * Cardinality(TwoRowGaps(old))
                        /\ WellFormed(old, bin_size) => AddedInGap(chrom, k) = <<>>
                        /\ new[k-1] = [old[k-1] EXCEPT
                                         !.loc_end = old[k-1].loc_end + bin_size,
                                         !.fill = "modified"]
                        /\ new[k].loc_start = new[k-1].loc_end + bin_size
                        /\ new[k].loc_start = old[k].loc_start

C6_Witness ==
    /\ FirstRun
    /\ \E chrom \in CanonicalChroms :
          \E k \in Pairs(Subset(before, chrom)) :
              /\ NBinsIs(chrom, k, 0)
              /\ Subset(df, chrom)[k-1].fill = "modified"

(***************************************************************************)
(* C7: Arm construction emits at most one Bin per bin position: the bins   *)
(* of an Arm are strictly increasing in start.                             *)
(***************************************************************************)
C7_OneBinPerPosition ==
    (profile # <<>>) =>
        \A a \in 1..Len(profile) :
            \A k \in 2..Len(profile[a].bins) :
                profile[a].bins[k-1].start < profile[a].bins[k].start

(***************************************************************************)
(* C8: a bin position covered by no interval is not fatal: the Arm is      *)
(* built, the position is counted as unassigned and gives no symbol.  For  *)
(* non-overlapping intervals the sequence has one symbol per bin position  *)
(* of range(arm_start, arm_end, bin_size) that is not unassigned.          *)
(***************************************************************************)
NonOverlapping(rows) ==
    \A j, k \in 1..Len(rows) :
        (j # k) => \/ rows[j].loc_end < rows[k].loc_start
                   \/ rows[k].loc_end < rows[j].loc_start

Uncovered(rows, rng) ==
    {p \in SeqRange(rng) :
        \A k \in 1..Len(rows) : ~(rows[k].loc_start <= p /\ p <= rows[k].loc_end)}

C8_UnassignedNotFatal ==
    (profile # <<>>) =>
        \A a \in 1..Len(profile) :
            LET arm  == profile[a]
                rows == Subset(df, arm.chrom)
            IN  NonOverlapping(rows) =>
                  /\ arm.unassigned = Cardinality(Uncovered(rows, arm.rng))
                  /\ Len(get_sequence(arm)) = Len(arm.rng) - arm.unassigned

C8_Witness ==
    /\ profile # <<>>
    /\ \E a \in 1..Len(profile) :
          /\ NonOverlapping(Subset(df, profile[a].chrom))
          /\ profile[a].unassigned >= 2
          /\ Len(get_sequence(profile[a])) >= 2

C10_ArmCountMismatch ==
    (Len(profile1) # Len(profile2)) =>
        /\ alignment = <<>>
        /\ al_returned = <<>>
        /\ al_done = 0
        /\ al_status \in {None, "AssertionError"}

C10_Witness ==
    /\ Len(profile1) # Len(profile2)
    /\ al_status = "AssertionError"
    /\ \E k \in 1..Len(profile1) :
          /\ HasArm(profile2, profile1[k].chrom)
          /\ profile1[k].seq # <<>>
          /\ SeqOf(profile2, profile1[k].chrom) # <<>>

(***************************************************************************)
(* Vocabulary for the claims about one align call (SpecAlignCall).         *)
(***************************************************************************)
Called == al_args.given /\ al_status # None

ArmsOf(prof) == {prof[k].chrom : k \in 1..Len(prof)}

\* The nested matrix m has an entry for the pair (a, b) in one of the orders.
HasEntry(m, a, b) ==
    \/ a \in DOMAIN m /\ b \in DOMAIN m[a]
    \/ b \in DOMAIN m /\ a \in DOMAIN m[b]

\* The substitution matrix cannot score arm k of profile1: it has no matrix
\* for the arm, or lacks a pair of states of the two sequences of the arm.
MatrixIncomplete(k) ==
    LET arm == profile1[k].chrom
    IN  \/ arm \notin DOMAIN al_args.sub_matrix
        \/ /\ HasArm(profile2, arm)
           /\ \E k1 \in 1..Len(profile1[k].seq),
                 k2 \in 1..Len(SeqOf(profile2, arm)) :
                  ~HasEntry(al_args.sub_matrix[arm], profile1[k].seq[k1],
                            SeqOf(profile2, arm)[k2])

\* Both profiles have the same arms, every arm has bins in both, and the
\* substitution matrix can score every arm.
Alignable ==
    /\ ArmsOf(profile1) = ArmsOf(profile2)
    /\ \A k \in 1..Len(profile1) :
          /\ profile1[k].seq # <<>>
          /\ SeqOf(profile2, profile1[k].chrom) # <<>>
          /\ ~MatrixIncomplete(k)

Max(a, b) == IF a >= b THEN a ELSE b

\* The sum of the diagonal entries m[s][s] over the symbols of seq.
RECURSIVE DiagonalSum(_, _)
DiagonalSum(m, seq) ==
    IF seq = <<>> THEN 0 ELSE m[Head(seq)][Head(seq)] + DiagonalSum(m, Tail(seq))

(***************************************************************************)
(* C11: with the default gap penalties, those of Alignment.align and those *)
(* of the command line, the alignment of every arm is gapless: its length  *)
(* is max(len(seq1), len(seq2)), and for sequences of equal length         *)
(* seq1_gaps and seq2_gaps are 0.                                          *)
(***************************************************************************)
C11_Gapless ==
    (/\ Called
     /\ Alignable
     /\ ~al_args.null_scores.given
     /\ <<al_args.gap_open, al_args.gap_extend>> \in GapPenalties) =>
        /\ al_status = "ok"
        /\ \A k \in 1..Len(profile1) :
              LET len1 == Len(profile1[k].seq)
                  len2 == Len(SeqOf(profile2, profile1[k].chrom))
                  r    == al_returned[k]
              IN  /\ Len(r.seq1) = Max(len1, len2)
                  /\ Len(r.seq2) = Max(len1, len2)
                  /\ (len1 = len2) => (r.seq1_gaps = 0 /\ r.seq2_gaps = 0)

C13_Probabilities ==
    (Called /\ al_status = "ok" /\ al_args.null_scores.given) =>
        \A k \in 1..Len(profile1) :
            LET r     == al_returned[k]
                nulls == al_args.null_scores.table[r.arm]
                ge    == {i \in 1..Len(nulls) : nulls[i] * Len(r.seq1) >= r.score}
                lt    == {i \in 1..Len(nulls) : nulls[i] * Len(r.seq1) < r.score}
            IN  /\ nulls # <<>>
                /\ r.proba = << Frac(Cardinality(ge), Len(nulls)),
                                Frac(Cardinality(lt), Len(nulls)) >>

\* an arm whose adjusted score ties with one null score and beats none
C13_Witness ==
    /\ Called
    /\ al_status = "ok"
    /\ al_args.null_scores.given
    /\ \E k \in 1..Len(profile1) :
          LET r     == al_returned[k]
              nulls == al_args.null_scores.table[r.arm]
          IN  /\ \E i \in 1..Len(nulls) : nulls[i] * Len(r.seq1) = r.score
              /\ r.proba = << Frac(2, 2), Frac(0, 2) >>

(***************************************************************************)
(* C14: with a null score table that has no entry for an aligned arm,      *)
(* align succeeds; that arm's result has no match_proba and no             *)
(* mismatch_proba, and the arms with an entry have both.                   *)
(***************************************************************************)
C14_MissingNullEntry ==
    (/\ Called
     /\ Alignable
     /\ al_args.gap_open <= 0 /\ al_args.gap_extend <= 0
     /\ al_args.null_scores.given
     /\ \E k \in 1..Len(profile1) :
           profile1[k].chrom \notin DOMAIN al_args.null_scores.table
     /\ \A c \in DOMAIN al_args.null_scores.table :
           al_args.null_scores.table[c] # <<>>) =>
        /\ al_status = "ok"
        /\ \A k \in 1..Len(profile1) :
              (al_returned[k].proba = <<>>) <=>
                  (profile1[k].chrom \notin DOMAIN al_args.null_scores.table)

(***************************************************************************)
(* C15: when the null score list of an arm is empty, the probabilities of  *)
(* that arm are skipped: align completes without error and the arm's       *)
(* result has no match_proba and no mismatch_proba.                        *)
(***************************************************************************)
C15_EmptyNullEntry ==
    (/\ Called
     /\ Alignable
     /\ al_args.gap_open <= 0 /\ al_args.gap_extend <= 0
     /\ al_args.null_scores.given
     /\ ArmsOf(profile1) \subseteq DOMAIN al_args.null_scores.table
     /\ \E k \in 1..Len(profile1) :
           al_args.null_scores.table[profile1[k].chrom] = <<>>) =>
        /\ al_status = "ok"
        /\ \A k \in 1..Len(profile1) :
              (al_args.null_scores.table[profile1[k].chrom] = <<>>) =>
                  al_returned[k].proba = <<>>

C16_PlotAfterAlign ==
    /\ [](al_drawn # {} => al_succeeded)
    /\ []((~al_succeeded /\ pl_status # None) => pl_status = "Exception")
    /\ [][(~al_succeeded /\ PlotNext) =>
             (pl_status' = "Exception" /\ al_drawn' = {})]_vars

\* plot called after an align call that failed
C16_Witness ==
    /\ ~al_succeeded
    /\ al_status \notin {None, "ok"}
    /\ pl_status = "Exception"
    /\ al_drawn = {}

(***************************************************************************)
(* C19: with null scores, the summary row of a sample pair has, for the    *)
(* thresholds 0.05, 0.10 and 0.20, the number of arms with match_proba <=  *)
(* the threshold and, for 0.60, 0.50 and 0.40, the number of arms with     *)
(* mismatch_proba <= the threshold; without null scores it has none of     *)
(* these counts.                                                           *)
(***************************************************************************)
ArmsWithin(results, column, num, den) ==
    Cardinality({k \in 1..Len(results) :
                    results[k].proba[column].num * den <=
                    num * results[k].proba[column].den})

C19_ThresholdCounts ==
    (sm_status = "ok") =>
        \A k \in 1..Len(sm_summary) :
            LET results == sm_results[sm_summary[k].pair]
            IN  IF sm_null
                THEN sm_summary[k].counts =
                        << ArmsWithin(results, 1, 5, 100),
                           ArmsWithin(results, 1, 10, 100),
                           ArmsWithin(results, 1, 20, 100),
                           ArmsWithin(results, 2, 60, 100),
                           ArmsWithin(results, 2, 50, 100),
                           ArmsWithin(results, 2, 40, 100) >>
                ELSE sm_summary[k].counts = <<>>

\* an arm whose match_proba is exactly 0.10 and one whose mismatch_proba is
\* exactly 0.40 are counted
C19_Witness ==
    /\ sm_status = "ok"
    /\ sm_null
    /\ \E k \in 1..Len(sm_summary) :
          /\ sm_results[k][1].proba[1] = Frac(1, 10)
          /\ sm_summary[k].counts[1] = 0
          /\ sm_summary[k].counts[2] = 1
    /\ \E k \in 1..Len(sm_summary) :
          /\ \E a \in 1..Len(sm_results[k]) : sm_results[k][a].proba[2] = Frac(2, 5)
          /\ sm_summary[k].counts[6] = 1

(***************************************************************************)
(* C20: the aggregation of a batch produces exactly one summary row,       *)
(* keyed by the experiment identifier of the caller, whatever the number   *)
(* of sample pairs of the batch.                                           *)
(***************************************************************************)
C20_OneRowPerBatch ==
    (sm_status = "ok" /\ Len(sm_results) >= 1) =>
        /\ Len(sm_summary) = 1
        /\ sm_summary[1].id = sm_exp_id

(***************************************************************************)
(* C17: in a batch run over several sample pairs, a fatal condition of one *)
(* pair aborts only that pair: when main ends, every pair has been taken   *)
(* up and the summary of the batch has been written.                       *)
(***************************************************************************)
C17_PairIsolation ==
    (Len(mn_data) >= 3 /\ mn_pc \in {"done", "aborted"}) =>
        /\ Len(mn_attempted) = Len(SamplePairsInOrder(Len(mn_data)))
        /\ \E f \in mn_files : f.name = "alignment_stats.csv"

(***************************************************************************)
(* C21: in blosum() the denominator n equals the number of sample-pair-    *)
(* position observations counted into pair_counts (the increments, without *)
(* the initial 1 of every key), so that the unsmoothed probabilities sum   *)
(* to 1.                                                                   *)
(***************************************************************************)
\* The increments made by the loop over positions and pairs of samples.
Increments(pd, d) ==
    SumOver(pd, d, StateSet \X StateSet) - Cardinality(StateSet \X StateSet)

C22_EveryPairOnce ==
    (mn_pc \in {"done", "aborted"}) =>
        /\ 2 * Len(mn_attempted) = Len(mn_data) * (Len(mn_data) - 1)
        /\ \A k \in 1..Len(mn_attempted) :
              mn_attempted[k][1] # mn_attempted[k][2]
        /\ \A k, l \in 1..Len(mn_attempted) :
              (k # l) =>
                 {mn_attempted[k][1], mn_attempted[k][2]} #
                 {mn_attempted[l][1], mn_attempted[l][2]}

(***************************************************************************)
(* C24: for every arm with a non-empty null score list, match_proba and    *)
(* mismatch_proba partition the null scores: their sum is exactly 1 and    *)
(* each of them lies in [0, 1].                                            *)
(***************************************************************************)
C24_Partition ==
    (Called /\ al_status = "ok" /\ al_args.null_scores.given) =>
        \A k \in 1..Len(al_returned) :
            LET r == al_returned[k]
            IN  /\ Len(r.proba) = 2
                /\ FracAdd(r.proba[1], r.proba[2]) = Frac(1, 1)
                /\ \A i \in 1..2 :
                      /\ FracLeq(Frac(0, 1), r.proba[i])
                      /\ FracLeq(r.proba[i], Frac(1, 1))

\* an arm whose adjusted score ties with one null score and beats another:
\* both probabilities are 1/2
C24_Witness ==
    /\ Called
    /\ al_status = "ok"
    /\ al_args.null_scores.given
    /\ \E k \in 1..Len(al_returned) :
          LET r     == al_returned[k]
              nulls == al_args.null_scores.table[r.arm]
          IN  /\ \E i \in 1..Len(nulls) : nulls[i] * Len(r.seq1) = r.score
              /\ \E i \in 1..Len(nulls) : nulls[i] * Len(r.seq1) < r.score
              /\ r.proba = << Frac(1, 2), Frac(1, 2) >>

(***************************************************************************)
(* C25: an align call that raises leaves the stored alignment as it was    *)
(* before the call (none while no align call has succeeded), and an align  *)
(* call that returns replaces it with the results returned, one for every  *)
(* arm of profile1 and for no other arm.                                   *)
(***************************************************************************)
C25_FailureKeepsAlignment ==
    /\ [](~al_succeeded => alignment = <<>>)
    /\ [][UsageAlign =>
            IF al_status' = "ok"
            THEN /\ alignment' = al_returned'
                 /\ Len(alignment') = Len(profile1)
                 /\ \A k \in 1..Len(profile1) :
                       alignment'[k].arm = profile1[k].chrom
            ELSE alignment' = alignment]_vars

\* a call that fails at the second arm, after an earlier call has succeeded:
\* the two results of the earlier call are still stored
C25_Witness ==
    /\ al_succeeded
    /\ al_status = "KeyError"
    /\ al_done = 1
    /\ Len(alignment) = 2

(***************************************************************************)
(* C28: utils.autoresolve only adds information, and only for the arms of  *)
(* the canonical order: every input row of such an arm is in the output    *)
(* with its ID, chrom, loc.start and state, its loc.end unchanged or       *)
(* increased by one bin_size and then marked 'modified'; every added row   *)
(* has a fill marker and null num.mark and seg.mean; the output has no row *)
(* of another arm; the table handed to the call is left as it was loaded.  *)
(***************************************************************************)
C28_OnlyAdds ==
    (nruns >= 1 /\ ar_status = "ok") =>
        /\ \A chrom \in CanonicalChroms :
              LET old == Subset(before, chrom)
                  new == Subset(df, chrom)
              IN  /\ Len(new) >= Len(old)
                  /\ \A k \in 1..Len(old) :
                        /\ new[k].ID = old[k].ID
                        /\ new[k].chrom = old[k].chrom
                        /\ new[k].loc_start = old[k].loc_start
                        /\ new[k].state = old[k].state
                        /\ \/ new[k] = old[k]
                           \/ new[k] = [old[k] EXCEPT
                                          !.loc_end = old[k].loc_end + bin_size,
                                          !.fill = "modified"]
                  /\ \A k \in (Len(old) + 1)..Len(new) :
                        /\ new[k].fill \in FillMarks
                        /\ new[k].num_mark = None
                        /\ new[k].seg_mean = None
        /\ \A k \in 1..Len(df) : df[k].chrom \in CanonicalChroms
        /\ (nruns = 1) =>
              \A k \in 1..Len(before) :
                  /\ before[k].fill = None
                  /\ before[k].num_mark = "observed"

\* two rows of chr01p two bins of size 2 apart: the first is extended and
\* marked, the second is returned as it was
C28_Witness ==
    /\ nruns = 1
    /\ ar_status = "ok"
    /\ bin_size = 2
    /\ LET old == Subset(before, "chr01p")
           new == Subset(df, "chr01p")
       IN  /\ Len(old) = 2
           /\ Len(new) = 2
           /\ new[1].loc_end = old[1].loc_end + 2
           /\ new[1].fill = "modified"
           /\ new[2] = old[2]

(***************************************************************************)
(* Vocabulary for the claims about the CGHcall conversions (SpecCGHcall).  *)
(***************************************************************************)
Converted(name) == cg_call.given /\ cg_call.name = name

\* The bin row lies inside the segment.
Inside(row, seg) ==
    /\ seg.chrom = row.chrom
    /\ seg.loc_start <= row.loc_start
    /\ row.loc_end <= seg.loc_end

\* The bin rows k-1 and k are rows of one chromosome without a missing bin.
Adjacent(rows, k) ==
    /\ rows[k-1].chrom = rows[k].chrom
    /\ rows[k-1].loc_end + 1 = rows[k].loc_start

(***************************************************************************)
(* C23: in convert_CGHcall_probs a bin whose probability vector differs    *)
(* from that of the current segment closes the segment and starts a new    *)
(* one; a segment is extended by a bin of an equal vector only, so every   *)
(* bin inside a segment has the vector of the segment.                     *)
(***************************************************************************)
C23_DifferingBinClosesSegment ==
    Converted("convert_CGHcall_probs") =>
        LET rows == WithPositions(cg_table)
        IN  /\ \A s \in 1..Len(cg_collapsed), k \in 1..Len(rows) :
                  Inside(rows[k], cg_collapsed[s]) =>
                     ProbaValuesOf(rows[k]) = ProbaValuesOf(cg_collapsed[s])
            /\ \A k \in 2..(Len(rows) - 1) :
                  ( /\ Adjacent(rows, k)
                    /\ Adjacent(rows, k + 1)
                    /\ ProbaValuesOf(rows[k-1]) # ProbaValuesOf(rows[k]) ) =>
                     \E s \in 1..Len(cg_collapsed) :
                         /\ cg_collapsed[s].chrom = rows[k].chrom
                         /\ cg_collapsed[s].loc_end = rows[k-1].loc_end

(***************************************************************************)
(* C26: autoresolve_CGHcall and autoresolve_CGHcall_proba add no row to a  *)
(* chromosome whose segments are contiguous (next.loc.start ==             *)
(* previous.loc.end + 1 for every adjacent pair): its output rows are its  *)
(* input rows, and no row of the output has loc.start > loc.end.           *)
(***************************************************************************)
Contiguous(segs) ==
    \A k \in 2..Len(segs) : segs[k].loc_start = segs[k-1].loc_end + 1

C26_NoFillBetweenContiguous ==
    (cg_call.given /\ cg_call.autoresolve) =>
        \A chrom \in SeqRange(UniqueChroms(cg_collapsed)) :
            Contiguous(Subset(cg_collapsed, chrom)) =>
                /\ cg_status = "ok"
                /\ Subset(cg_segments, chrom) = Subset(cg_collapsed, chrom)
                /\ \A k \in 1..Len(cg_segments) :
                      cg_segments[k].loc_start <= cg_segments[k].loc_end

(***************************************************************************)
(* C27: the run-length collapse of convert_CGHcall loses no bin: every bin *)
(* of the input lies inside exactly one emitted segment, and the state of  *)
(* that segment is the call of the bin; this includes the last bin of a    *)
(* chromosome, a last bin after a missing bin, and the only bin of a       *)
(* chromosome.                                                             *)
(***************************************************************************)
C27_NoBinLost ==
    Converted("convert_CGHcall") =>
        LET rows == WithPositions(WithChars(cg_table))
        IN  \A k \in 1..Len(rows) :
                LET inside == {s \in 1..Len(cg_collapsed) :
                                 Inside(rows[k], cg_collapsed[s])}
                IN  /\ Cardinality(inside) = 1
                    /\ \A s \in inside : cg_collapsed[s].state = rows[k].CALL
====
